---- MODULE Spec2Model ----
(***************************************************************************)
(* Model of src/main.py: the batch redaction driver.  main() scans the     *)
(* input directory, skips the units whose <base>.json is already in the    *)
(* output directory, and runs process_file for the others on a thread      *)
(* pool.  process_file retries whole-file attempts; each attempt calls     *)
(* redact_conversation (submit with HTTP retries, poll with a timeout,     *)
(* reconcile) once per conversation of the file and writes one artifact    *)
(* per conversation.                                                       *)
(***************************************************************************)
EXTENDS Integers, Sequences, FiniteSets, TLC

(* ---------------------------------------------------------------- bounds *)
\* Tunables of the program (environment variables); the model explores
\* small values of them.
MAX_HTTP_RETRIES == 2
MAX_FILE_RETRIES == 2
\* POLL_TIMEOUT_SECONDS, in ticks of the model's clock.
POLL_TIMEOUT_SECONDS == 1
\* Largest MAX_CONCURRENCY the model tries.
MaxConcurrency == 3
\* Largest number of elements of a multi-document JSON array.
MaxSub == 2
\* Largest number of files in the input directory.
MaxFiles == 2
\* Largest time, in ticks, one polling iteration takes.
MaxTick == 2
\* How many times the program is run over the same directories.
Runs == 2

(* ------------------------------------------------------------- the input *)
\* A file name is base + "." + ext; os.path.splitext gives the base back.
Units == { [base |-> "x", ext |-> "csv"],
           [base |-> "x", ext |-> "json"],
           [base |-> "y", ext |-> "json"] }

splitext(f) == f.base

\* A conversation id / artifact name: n = 0 is "<base>", n > 0 is
\* "<base>_00n" (f"{base_id}_{i:03d}").
DocId(b, n) == [base |-> b, n |-> n]

DocIds == { DocId(b, n) : b \in {"x", "y"}, n \in 0..(MaxSub + 1) }

NoFile == [id |-> DocId("", 0), conversation |-> << >>, exists |-> FALSE]

Min(a, b) == IF a < b THEN a ELSE b
Max(a, b) == IF a > b THEN a ELSE b

\* What the loaders can return for a file, as the list of id suffixes:
\* a CSV file or a single-document JSON file gives one conversation named
\* after the file; a JSON array under JSON_MULTI_DOC gives one per element
\* (the arrays of the model have at least one element).
LoadShapes(f) ==
    IF f.ext = "csv" THEN { <<0>> }
    ELSE { <<0>> } \cup { [k \in 1..n |-> k] : n \in 1..MaxSub }

\* The turns of the conversation the loader builds: ids are
\* conversationId_<idx>; the second element of a JSON array is a document
\* without any turn.
conversationItems(f, n) ==
    IF f.ext = "csv"
    THEN << [participantId |-> "internal", id |-> 1, text |-> "hi"],
            [participantId |-> "external", id |-> 2, text |-> "yo"] >>
    ELSE IF n = 2 THEN << >>
    ELSE << [participantId |-> "external", id |-> 1, text |-> "yo"] >>

\* timestamps_by_id: every turn id is a key; an empty timestamp is None.
None == "None"
timestamps_by_id(f, n) ==
    IF f.ext = "csv"
    THEN [i \in {1, 2} |-> IF i = 1 THEN "10:00" ELSE None]
    ELSE IF n = 2 THEN [i \in {} |-> None]
    ELSE [i \in {1} |-> None]

(* ------------------------------------------------------- reconciliation *)
\* id_to_participant: the dict comprehension over the original turns (for
\* a repeated id the last turn wins).
id_to_participant(items) ==
    [i \in { items[k].id : k \in 1..Len(items) } |->
        LET last == CHOOSE k \in 1..Len(items) :
                       /\ items[k].id = i
                       /\ \A j \in (k + 1)..Len(items) : items[j].id # i
        IN  items[last].participantId]

KeyError == "KeyError"

\* dict.get: the value, or None for a missing key.
Get(d, k) == IF k \in DOMAIN d THEN d[k] ELSE None

\* A subscript that gives None for a missing key instead of raising.
Subscript_OrNone(d, k) == IF k \in DOMAIN d THEN d[k] ELSE None

\* The subscript d[k] of a dict: the value, or KeyError raised.
Subscript(d, k) == IF k \in DOMAIN d THEN d[k] ELSE KeyError

\* redacted_conversation with the original text in place of the redacted one.
Reconcile_OriginalText(items, ts, analysed) ==
    [id |-> analysed.id,
     conversation |->
        [k \in 1..Len(analysed.conversationItems) |->
            LET item == analysed.conversationItems[k]
            IN  [timestamp |-> Get(ts, item.id),
                 participant |-> Subscript(id_to_participant(items), item.id),
                 text |-> IF \E j \in 1..Len(items) : items[j].id = item.id
                          THEN items[CHOOSE j \in 1..Len(items) : items[j].id = item.id].text
                          ELSE item.redactedContent]],
     exists |-> TRUE]

\* redacted_conversation: one entry per returned item, in the returned
\* order, built by the list comprehension.
Reconcile(items, ts, analysed) ==
    [id |-> analysed.id,
     conversation |->
        [k \in 1..Len(analysed.conversationItems) |->
            LET item == analysed.conversationItems[k]
            IN  [timestamp |-> Get(ts, item.id),
                 participant |-> Subscript(id_to_participant(items), item.id),
                 text |-> item.redactedContent]],
     exists |-> TRUE]

\* The list comprehension raises when one of its subscripts does.
ReconcileRaises(items, analysed) ==
    \E k \in 1..Len(analysed.conversationItems) :
        Subscript(id_to_participant(items), analysed.conversationItems[k].id) = KeyError

(* ---------------------------------------------------- the remote service *)
status_forcelist == {429, 500, 502, 503, 504}

\* requests' Response.raise_for_status raises HTTPError for 4xx and 5xx only.
RaisesForStatus(s) == s >= 400 /\ s < 600

\* The statuses the modelled service answers a submission with.
SubmitStatuses == {202, 429, 503, 304, 400}
\* The statuses the modelled service answers a status check with.
PollStatuses == {200, 429, 503, 304, 404}
\* The "status" of a 200 status-check body.
JobStatuses == {"succeeded", "failed", "running"}

Reverse(s) == [k \in 1..Len(s) |-> s[Len(s) + 1 - k]]

\* The analysed conversations the service can return for a document: the
\* submitted id echoed, every turn redacted to "**", in the submitted or
\* the reverse order, or with an item whose id (99) is no turn of the
\* document.
Redacted(items) == [k \in 1..Len(items) |-> [id |-> items[k].id, redactedContent |-> "**"]]
GoodResult(id, items) == [id |-> id, conversationItems |-> Redacted(items)]
ServiceResults(id, items) ==
    { GoodResult(id, items),
      [id |-> id, conversationItems |-> Reverse(Redacted(items))],
      [id |-> id, conversationItems |->
            Append(Redacted(items), [id |-> 99, redactedContent |-> "**"])] }

\* The kind of fault an answer to a submission is.
SubmitFault(r) ==
    IF r.kind = "neterr" THEN "neterr"
    ELSE IF r.status = 202 THEN (IF r.location THEN "none" ELSE "nohdr")
    ELSE IF r.status \in status_forcelist THEN "transient"
    ELSE IF RaisesForStatus(r.status) THEN "fatal"
    ELSE "odd"

\* The kind of fault an answer to a status check of a job for (id, items) is.
PollFault(r, id, items) ==
    IF r.kind = "neterr" THEN "neterr"
    ELSE IF r.status = 200
    THEN IF r.body = "succeeded"
         THEN IF r.result = GoodResult(id, items) THEN "none"
              ELSE IF \E k \in 1..Len(r.result.conversationItems) :
                         r.result.conversationItems[k].id = 99 THEN "badid"
              ELSE "reorder"
         ELSE IF r.body = "failed" THEN "jobfail"
         ELSE "running"
    ELSE IF r.status \in status_forcelist THEN "transient"
    ELSE IF RaisesForStatus(r.status) THEN "gone"
    ELSE "odd"

(* ------------------------------------------------------------- the state *)
VARIABLES
    all_files,                \* os.listdir(input_dir), filtered by extension
    max_concurrent_requests,  \* MAX_CONCURRENCY
    convos,                   \* per file, the id suffixes of the conversations the loader returns
    output,                   \* the output directory: artifact name -> content
    run,                      \* which run of the program this is
    main,                     \* main()'s locals and position
    pending_files,            \* main()'s pending_files
    task,                     \* per file, the locals of process_file and redact_conversation
    log,                      \* per finished run, the counts main() ended with
    faults,                   \* the kinds of misbehaviour the service and the network show
    stuck,                    \* the files whose jobs never report "succeeded" or "failed"
    rc                        \* arguments and outcome of one reconciliation on its own

\* What a run is given: it never changes.
inputs == << all_files, max_concurrent_requests, convos, faults, stuck >>

vars == << inputs, output, run, main, pending_files, task, log, rc >>

\* An exception: its type (and message), the HTTP status it carries, and
\* whether its message names the last network exception (last_exc=...).
NoExc == [type |-> "None", status |-> 0, names_last_exc |-> FALSE]
Exc(t, s) == [type |-> t, status |-> s, names_last_exc |-> FALSE]

NoJob == [attempt |-> 0, sub |-> 0]

NoResult == [id |-> DocId("", 0), conversationItems |-> << >>]

\* History of a file's requests, kept beside the program's locals: the last
\* request and its answer, the number of POSTs of the current (or last)
\* submit loop, and whether all their answers were statuses of
\* status_forcelist.  A request overwrites it; nothing else does.
\* run_posts counts the POSTs the file has sent in this run.
NoHttp == [method |-> "", kind |-> "", status |-> 0, location |-> FALSE,
           body |-> "", result |-> NoResult, posts |-> 0, only_transient |-> TRUE,
           run_posts |-> 0]

\* A file whose process_file has not started.  stale remembers, beside the
\* program's locals, whether an artifact of the file that the scan had not
\* seen was there when process_file started.
Idle == [pc |-> "idle", attempt |-> 0, sub |-> 0, attempt_http |-> 0,
         response |-> 0, net_exc |-> FALSE, elapsed |-> 0,
         job_endpoint |-> NoJob, last_exc |-> NoExc, http |-> NoHttp,
         stale |-> FALSE]

\* main() before the scan; scan_out remembers, beside main()'s locals, the
\* artifacts that were in the output directory when the scan looked.
MainStart == [pc |-> "scan", skipped |-> 0, max_workers |-> 0,
              successes |-> 0, failures |-> 0, scan_out |-> {}]

\* The kinds of answers other than the expected one (202 with an
\* Operation-Location; 200 "succeeded" with the turns in the submitted order).
\* "concurrent" is another run of the program over the same directories
\* that completes a queued file.
AllFaults == {"neterr", "transient", "fatal", "odd", "nohdr", "jobfail",
              "running", "reorder", "badid", "gone", "concurrent"}
\* The faults shown when several files are processed.
PoolFaults == {"fatal", "running", "badid"}

\* No reconciliation on its own.
NoRc == [items |-> << >>, ts |-> << >>, analysed |-> NoResult,
         done |-> FALSE, raised |-> FALSE, out |-> NoFile]

\* The program before main() runs, for the given files.
Start ==
    /\ max_concurrent_requests \in 0..MaxConcurrency
    /\ convos \in { c \in [Units -> { << >> } \cup UNION { LoadShapes(f) : f \in Units }] :
                      \A f \in Units : IF f \in all_files THEN c[f] \in LoadShapes(f)
                                       ELSE c[f] = << >> }
    /\ output = [d \in DocIds |-> NoFile]
    /\ run = 1
    /\ main = MainStart
    /\ pending_files = {}
    /\ task = [f \in Units |-> Idle]
    /\ log = << >>

\* One file against a service that shows every fault, or several files
\* against a service that shows PoolFaults.
Init ==
    /\ all_files \in { F \in SUBSET Units : Cardinality(F) <= MaxFiles }
    /\ faults = IF Cardinality(all_files) <= 1 THEN AllFaults ELSE PoolFaults
    /\ stuck = {}
    /\ rc = NoRc
    /\ Start
Running == { f \in Units : task[f].pc \in {"submit", "poll"} }
Finished == { f \in Units : task[f].pc \in {"returned", "raised"} }

(* ----------------------------------------------------------------- main *)
\* expected_out / pre_out: os.path.join(output_dir, f"{base}.json").
expected_out(f) == DocId(splitext(f), 0)

\* PoolSize without the cap by MAX_CONCURRENCY.
PoolSize_Uncapped(k, files) == Max(1, Cardinality(files))

\* The pool size main() computes from MAX_CONCURRENCY and len(all_files).
PoolSize(k, files) == Max(1, Min(k, Cardinality(files)))

\* main() up to the creation of the pool: the scan for existing outputs
\* and the two early returns.
Scan ==
    /\ main.pc = "scan"
    /\ LET pend == { f \in all_files : ~output[expected_out(f)].exists }
           skip == Cardinality(all_files) - Cardinality(pend)
           seen == { d \in DocIds : output[d].exists }
       IN  IF all_files = {} \/ pend = {}
           THEN /\ main' = [main EXCEPT !.pc = "exit", !.skipped = skip,
                                        !.scan_out = seen]
                /\ log' = Append(log, [succeeded |-> 0, failed |-> 0, skipped |-> skip,
                                       summary |-> FALSE])
                /\ pending_files' = {}
           ELSE /\ main' = [main EXCEPT !.pc = "pool", !.skipped = skip,
                               !.scan_out = seen,
                               !.max_workers = PoolSize(max_concurrent_requests,
                                                        all_files)]
                /\ pending_files' = pend
                /\ log' = log
    /\ UNCHANGED << inputs, output, run, task, rc >>

\* The end of the with-block: every future has completed and been counted;
\* main() prints the summary line.
Summary ==
    /\ main.pc = "pool"
    /\ pending_files \subseteq Finished
    /\ main' = [main EXCEPT !.pc = "exit"]
    /\ log' = Append(log, [succeeded |-> main.successes, failed |-> main.failures,
                           skipped |-> main.skipped, summary |-> TRUE])
    /\ UNCHANGED << inputs, output, run, pending_files, task, rc >>

\* The program is started again over the same input and output directories.
Rerun ==
    /\ main.pc = "exit"
    /\ run < Runs
    /\ run' = run + 1
    /\ main' = MainStart
    /\ pending_files' = {}
    /\ task' = [f \in Units |-> Idle]
    /\ UNCHANGED << inputs, output, log, rc >>

(* --------------------------------------------------------- process_file *)
\* The entry of redact_conversation for the k-th conversation of the file
\* in attempt a: fresh locals.
Begin(t, a, k) ==
    [t EXCEPT !.pc = "submit", !.attempt = a, !.sub = k, !.attempt_http = 0,
              !.response = 0, !.net_exc = FALSE, !.elapsed = 0,
              !.job_endpoint = NoJob]

\* process_file returns its output paths.
Returned(t) == [Idle EXCEPT !.pc = "returned", !.http = t.http, !.stale = t.stale]

\* AfterExc with a retry that goes on polling the job of the failed attempt
\* when there is one.
AfterExc_Resume(t, e) ==
    IF t.attempt < MAX_FILE_RETRIES
    THEN IF t.job_endpoint # NoJob
         THEN [t EXCEPT !.last_exc = e, !.attempt = t.attempt + 1, !.elapsed = 0]
         ELSE [t EXCEPT !.pc = "submit", !.attempt = t.attempt + 1, !.sub = 1,
                        !.attempt_http = 0, !.response = 0, !.net_exc = FALSE,
                        !.elapsed = 0, !.last_exc = e]
    ELSE [Idle EXCEPT !.pc = "raised", !.last_exc = e, !.http = t.http,
                      !.stale = t.stale]

\* AfterExc with a retry loop that makes one attempt too many.
AfterExc_OneMore(t, e) ==
    IF t.attempt <= MAX_FILE_RETRIES
    THEN [t EXCEPT !.pc = "submit", !.attempt = t.attempt + 1, !.sub = 1,
                   !.attempt_http = 0, !.response = 0, !.net_exc = FALSE,
                   !.elapsed = 0, !.job_endpoint = NoJob, !.last_exc = e]
    ELSE [Idle EXCEPT !.pc = "raised", !.last_exc = e, !.http = t.http,
                      !.stale = t.stale]

\* "except Exception as e" of process_file: remember e and start the next
\* attempt from the first conversation, or give up after MAX_FILE_RETRIES.
AfterExc(t, e) ==
    IF t.attempt < MAX_FILE_RETRIES
    THEN Begin([t EXCEPT !.last_exc = e], t.attempt + 1, 1)
    ELSE [Idle EXCEPT !.pc = "raised", !.last_exc = e, !.http = t.http,
                      !.stale = t.stale]

\* A step of process_file(f) that leaves its locals as t2; when the call
\* has ended, main()'s as_completed loop counts the future.
Step(f, t2) ==
    /\ task' = [task EXCEPT ![f] = t2]
    /\ main' = IF t2.pc = "returned"
               THEN [main EXCEPT !.successes = main.successes + 1]
               ELSE IF t2.pc = "raised"
               THEN [main EXCEPT !.failures = main.failures + 1]
               ELSE main

\* The artifacts a complete processing of the file writes: one per
\* conversation, named after the conversation's id.
Artifacts(f) == { DocId(splitext(f), convos[f][k]) : k \in 1..Len(convos[f]) }

\* The artifacts that are in the output directory now and were not when the
\* scan looked.
Appeared == { d \in DocIds : output[d].exists /\ d \notin main.scan_out }

\* A pool thread takes the file from the queue (the queue order is the
\* order of os.listdir, which is arbitrary) and runs process_file up to
\* its first request: the early skip guard and the load.
StartTask(f) ==
    /\ main.pc = "pool"
    /\ f \in pending_files
    /\ task[f].pc = "idle"
    /\ Cardinality(Running) < main.max_workers
    /\ LET t == [Idle EXCEPT !.stale = Artifacts(f) \cap Appeared # {}] IN
       IF output[expected_out(f)].exists \/ convos[f] = << >>
       THEN Step(f, Returned(t))
       ELSE Step(f, Begin(t, 1, 1))
    /\ UNCHANGED << inputs, output, run, pending_files, log, rc >>

(* -------------------------------------------------- redact_conversation *)
NetErr == [kind |-> "neterr", status |-> 0, location |-> FALSE]

AnySubmitResponse ==
    { [kind |-> "response", status |-> s, location |-> l] :
        s \in SubmitStatuses, l \in BOOLEAN } \cup { NetErr }

SubmitResponses == { r \in AnySubmitResponse : SubmitFault(r) \in faults \cup {"none"} }

\* LoopEnd with a loop that runs once too often.
LoopEnd_OneMore(t) ==
    IF t.attempt_http <= MAX_HTTP_RETRIES THEN t
    ELSE IF t.response = 0
    THEN [Idle EXCEPT !.pc = "raised", !.http = t.http, !.stale = t.stale,
                      !.last_exc = Exc("RuntimeError: no response", 0)]
    ELSE [Idle EXCEPT !.pc = "raised", !.http = t.http, !.stale = t.stale,
                      !.last_exc = Exc("RuntimeError: failed to submit", t.response)]

\* After the body of the submit loop: the next iteration, or the checks
\* that follow the loop once range(MAX_HTTP_RETRIES) is used up.
LoopEnd(t) ==
    IF t.attempt_http < MAX_HTTP_RETRIES THEN t
    ELSE IF t.response = 0
    THEN AfterExc(t, Exc("RuntimeError: no response", 0))
    ELSE AfterExc(t, [Exc("RuntimeError: failed to submit", t.response)
                        EXCEPT !.names_last_exc = t.net_exc])

\* SubmitStep without the check of the Operation-Location header.
SubmitStep_NoHeaderCheck(t, r) ==
    LET n == t.attempt_http + 1 IN
    IF r.kind = "neterr"
    THEN LoopEnd([t EXCEPT !.net_exc = TRUE, !.attempt_http = n])
    ELSE IF r.status = 202
    THEN [t EXCEPT !.pc = "poll", !.response = 202, !.attempt_http = 0,
                   !.net_exc = FALSE,
                   !.job_endpoint = [attempt |-> t.attempt, sub |-> t.sub],
                   !.elapsed = 0]
    ELSE IF r.status \in status_forcelist
    THEN LoopEnd([t EXCEPT !.response = r.status, !.attempt_http = n])
    ELSE IF RaisesForStatus(r.status)
    THEN AfterExc(t, Exc("HTTPError", r.status))
    ELSE LoopEnd([t EXCEPT !.response = r.status, !.attempt_http = n])

\* One iteration of the submit loop with the answer r to the POST.
SubmitStep(t, r) ==
    LET n == t.attempt_http + 1 IN
    IF r.kind = "neterr"
    THEN LoopEnd([t EXCEPT !.net_exc = TRUE, !.attempt_http = n])
    ELSE IF r.status = 202
    THEN IF r.location
         THEN \* attempt and last_exc of the submit loop are not read again
              [t EXCEPT !.pc = "poll", !.response = 202, !.attempt_http = 0,
                        !.net_exc = FALSE,
                        !.job_endpoint = [attempt |-> t.attempt, sub |-> t.sub],
                        !.elapsed = 0]
         ELSE AfterExc(t, Exc("ValueError: no Operation-Location", 202))
    ELSE IF r.status \in status_forcelist
    THEN LoopEnd([t EXCEPT !.response = r.status, !.attempt_http = n])
    ELSE IF RaisesForStatus(r.status)
    THEN AfterExc(t, Exc("HTTPError", r.status))
    ELSE LoopEnd([t EXCEPT !.response = r.status, !.attempt_http = n])

\* The history after a POST answered by r.
Posted(t, r) ==
    [t EXCEPT !.http =
        [method |-> "POST", kind |-> r.kind, status |-> r.status,
         location |-> r.location, body |-> "", result |-> NoResult,
         posts |-> IF t.attempt_http = 0 THEN 1 ELSE t.http.posts + 1,
         only_transient |->
            /\ t.attempt_http = 0 \/ t.http.only_transient
            /\ r.kind = "response" /\ r.status \in status_forcelist,
         run_posts |-> t.http.run_posts + 1]]

Post(f) ==
    /\ task[f].pc = "submit"
    /\ \E r \in SubmitResponses : Step(f, SubmitStep(Posted(task[f], r), r))
    /\ UNCHANGED << inputs, output, run, pending_files, log, rc >>

\* The id and turns of the conversation process_file is working on.
CurId(f, t) == DocId(splitext(f), convos[f][t.sub])
CurItems(f, t) == conversationItems(f, convos[f][t.sub])
CurTimestamps(f, t) == timestamps_by_id(f, convos[f][t.sub])

AnyPollResponse(f, t) ==
    { [kind |-> "response", status |-> s, body |-> "", result |-> NoResult] :
        s \in PollStatuses \ {200} }
    \cup { [kind |-> "response", status |-> 200, body |-> b, result |-> NoResult] :
        b \in JobStatuses \ {"succeeded"} }
    \cup { [kind |-> "response", status |-> 200, body |-> "succeeded", result |-> res] :
        res \in ServiceResults(CurId(f, t), CurItems(f, t)) }
    \cup { [kind |-> "neterr", status |-> 0, body |-> "", result |-> NoResult] }

\* A job of a stuck file is never reported finished.
PollResponses(f, t) ==
    { r \in AnyPollResponse(f, t) :
        /\ PollFault(r, CurId(f, t), CurItems(f, t)) \in faults \cup {"none"}
        /\ f \in stuck => ~(r.status = 200 /\ r.body \in {"succeeded", "failed"}) }

\* A timeout guard that never fires.
TimedOut_Never(t) == FALSE

\* The timeout guard at the top of the polling loop.
TimedOut(t) == t.elapsed > POLL_TIMEOUT_SECONDS

\* Sleep in a poller that counts its unsuccessful status checks like the
\* submit loop does and gives up after MAX_HTTP_RETRIES of them.
Sleep_Counted(t, dt) ==
    IF t.attempt_http + 1 >= MAX_HTTP_RETRIES
    THEN AfterExc(t, Exc("RuntimeError: failed to poll", t.response))
    ELSE [t EXCEPT !.elapsed = Min(t.elapsed + dt, POLL_TIMEOUT_SECONDS + 1),
                   !.attempt_http = t.attempt_http + 1]

\* time.sleep(poll_interval) at the end of a polling iteration; every
\* elapsed time above the timeout is the same to the guard.
Sleep(t, dt) == [t EXCEPT !.elapsed = Min(t.elapsed + dt, POLL_TIMEOUT_SECONDS + 1)]

\* After redact_conversation returned: the artifact is written and
\* process_file goes on with the next conversation or returns.
AfterWrite(f, t) ==
    IF t.sub < Len(convos[f]) THEN Begin(t, t.attempt, t.sub + 1) ELSE Returned(t)

\* The history after a GET answered by r.
Polled(t, r) ==
    [t EXCEPT !.http =
        [method |-> "GET", kind |-> r.kind, status |-> r.status,
         location |-> FALSE, body |-> r.body, result |-> r.result,
         posts |-> t.http.posts, only_transient |-> t.http.only_transient,
         run_posts |-> t.http.run_posts]]

\* One iteration of the polling loop: the timeout guard, the GET, and what
\* follows it (reconciliation and the write when the job succeeded).
Poll(f) ==
    /\ task[f].pc = "poll"
    /\ IF TimedOut(task[f])
       THEN /\ Step(f, AfterExc(task[f], Exc("TimeoutError", 0)))
            /\ output' = output
       ELSE \E r \in PollResponses(f, task[f]), dt \in 1..MaxTick :
            LET t == Polled(task[f], r) IN
            IF r.kind = "neterr"
            THEN Step(f, Sleep(t, dt)) /\ output' = output
            ELSE IF r.status = 200
            THEN IF r.body = "succeeded"
                 THEN IF ReconcileRaises(CurItems(f, t), r.result)
                      THEN /\ Step(f, AfterExc(t, Exc("KeyError", 0)))
                           /\ output' = output
                      ELSE LET red == Reconcile(CurItems(f, t), CurTimestamps(f, t), r.result)
                           IN  /\ output' = [output EXCEPT ![red.id] = red]
                               /\ Step(f, AfterWrite(f, t))
                 ELSE IF r.body = "failed"
                 THEN /\ Step(f, AfterExc(t, Exc("RuntimeError: job failed", 0)))
                      /\ output' = output
                 ELSE Step(f, Sleep([t EXCEPT !.response = 200], dt)) /\ output' = output
            ELSE IF r.status \in status_forcelist
            THEN Step(f, Sleep([t EXCEPT !.response = r.status], dt)) /\ output' = output
            ELSE IF RaisesForStatus(r.status)
            THEN Step(f, AfterExc(t, Exc("HTTPError", r.status))) /\ output' = output
            ELSE Step(f, Sleep([t EXCEPT !.response = r.status], dt)) /\ output' = output
    /\ UNCHANGED << inputs, run, pending_files, log, rc >>

\* Another run of the program over the same directories, started while
\* this run has the file queued, completes the file: it writes the artifact
\* of every conversation of the file.
ConcurrentRun(f) ==
    /\ "concurrent" \in faults
    /\ main.pc = "pool"
    /\ f \in pending_files
    /\ task[f].pc = "idle"
    /\ \E d \in Artifacts(f) : ~output[d].exists
    /\ output' = [d \in DocIds |->
                    IF d \in Artifacts(f)
                    THEN Reconcile(conversationItems(f, d.n), timestamps_by_id(f, d.n),
                                   GoodResult(d, conversationItems(f, d.n)))
                    ELSE output[d]]
    /\ UNCHANGED << inputs, run, main, pending_files, task, log, rc >>

Next ==
    \/ Scan
    \/ \E f \in Units : ConcurrentRun(f)
    \/ \E f \in Units : StartTask(f)
    \/ \E f \in Units : Post(f)
    \/ \E f \in Units : Poll(f)
    \/ Summary
    \/ Rerun

Spec == Init /\ [][Next]_vars

(* ------------------------------------------------- threads keep running *)
\* The faults shown to several files when some file's jobs never finish.
LiveFaults == {"running", "fatal"}

\* Some file's jobs never finish and no status check is answered with a
\* fatal status: one file against every other fault, or several files
\* against LiveFaults.
LiveInit ==
    /\ all_files \in { F \in SUBSET Units : Cardinality(F) \in 1..MaxFiles }
    /\ faults = IF Cardinality(all_files) <= 1 THEN AllFaults \ {"gone"} ELSE LiveFaults
    /\ stuck \in (SUBSET all_files) \ {{}}
    /\ rc = NoRc
    /\ Start
    /\ max_concurrent_requests \in 1..2

\* Every thread that can take a step eventually takes one: main() reaches
\* the pool and its end, a pool thread takes a queued file when a worker is
\* free, and every request returns (HTTP_TIMEOUT_SECONDS) or raises.
LiveSpec ==
    /\ LiveInit /\ [][Next]_vars
    /\ WF_vars(Scan) /\ WF_vars(Summary)
    /\ \A f \in Units : WF_vars(StartTask(f)) /\ WF_vars(Post(f)) /\ WF_vars(Poll(f))

(* ---------------------------------------------- reconciliation, alone *)
\* The reconciliation at the end of redact_conversation applied to one
\* original conversation, timestamp map and analysed conversation.
MaxTurns == 2
Participants == {"internal", "external"}
RcItems == UNION { { [k \in 1..n |-> [participantId |-> p[k], id |-> k, text |-> "hi"]] :
                        p \in [1..n -> Participants] } : n \in 0..MaxTurns }
RcTimestamps == UNION { [D -> {"10:00", None}] : D \in SUBSET (1..MaxTurns) }
RcAnalysed == UNION { [1..n -> { [id |-> i, redactedContent |-> x] :
                                    i \in (1..MaxTurns) \cup {99}, x \in {"**", "*"} }] :
                        n \in 0..MaxTurns }

RcInit ==
    /\ all_files = {}
    /\ faults = {}
    /\ stuck = {}
    /\ Start
    /\ max_concurrent_requests = 0
    /\ rc \in { [NoRc EXCEPT !.items = i, !.ts = t,
                              !.analysed = [id |-> DocId("x", 0), conversationItems |-> a]] :
                 i \in RcItems, t \in RcTimestamps, a \in RcAnalysed }

ReconcileCall ==
    /\ ~rc.done
    /\ rc' = IF ReconcileRaises(rc.items, rc.analysed)
             THEN [rc EXCEPT !.done = TRUE, !.raised = TRUE]
             ELSE [rc EXCEPT !.done = TRUE,
                             !.out = Reconcile(rc.items, rc.ts, rc.analysed)]
    /\ UNCHANGED << inputs, output, run, main, pending_files, task, log >>

RcSpec == RcInit /\ [][ReconcileCall]_vars

(* ================================================================ claims *)
InFlight == Cardinality(Running)

\* The submit loop that sent the file's last POST has ended.
SubmitOver(f) == ~(task[f].pc = "submit" /\ task[f].attempt_http > 0)

\* C1 (as claimed): in a second run over the same input and output
\* directories no file is in redact_conversation, and the second run's
\* skipped count is the first run's succeeded count.
C1_IdempotentResume ==
    run = 2 =>
        /\ \A f \in Units : task[f].pc \notin {"submit", "poll"}
        /\ main.pc # "scan" => main.skipped = log[1].succeeded

\* C2 (as claimed): at most min(K, N) calls of process_file are in flight,
\* K the configured limit and N the number of pending files.
C2_Original ==
    InFlight <= Min(max_concurrent_requests, Cardinality(pending_files))

\* C2 (amended): at most max(1, min(K, N)) calls of process_file are in
\* flight: a limit below one still gives one worker.
C2_ConcurrencyBound ==
    InFlight <= Max(1, Min(max_concurrent_requests, Cardinality(pending_files)))

\* Two calls in flight, which is the limit and the number of pending files.
C2_Witness ==
    /\ InFlight >= 2
    /\ InFlight = Min(max_concurrent_requests, Cardinality(pending_files))

\* C3 (as claimed): the pool size is max(1, min(K, number of pending files)).
C3_PoolSize ==
    main.pc = "pool" =>
        main.max_workers =
            Max(1, Min(max_concurrent_requests, Cardinality(pending_files)))

\* C4: a submit loop never sends more than MAX_HTTP_RETRIES POSTs, and one
\* whose answers were all statuses of status_forcelist has sent exactly
\* MAX_HTTP_RETRIES when it ends, ends by raising the error that carries
\* the last status, and leaves no job handle.
C4_TransientExhausts ==
    \A f \in Units :
        LET h == task[f].http IN
        /\ h.posts <= MAX_HTTP_RETRIES
        /\ (h.method = "POST" /\ h.only_transient /\ SubmitOver(f)) =>
              /\ h.posts = MAX_HTTP_RETRIES
              /\ task[f].last_exc = Exc("RuntimeError: failed to submit", h.status)
              /\ task[f].job_endpoint = NoJob
              /\ task[f].pc # "poll"

\* A submit loop has ended after MAX_HTTP_RETRIES transient answers.
C4_Witness ==
    \E f \in Units :
        /\ task[f].http.method = "POST" /\ task[f].http.only_transient
        /\ SubmitOver(f)
        /\ task[f].http.posts = MAX_HTTP_RETRIES
        /\ task[f].http.status = 503

\* C5 (as claimed): after a POST answered with a status that is neither 2xx
\* nor in status_forcelist the submit loop has ended by raising.
C5_FatalImmediate ==
    \A f \in Units :
        LET h == task[f].http IN
        (/\ h.method = "POST" /\ h.kind = "response"
         /\ ~(h.status >= 200 /\ h.status < 300)
         /\ h.status \notin status_forcelist) =>
              /\ SubmitOver(f)
              /\ task[f].last_exc.type = "HTTPError"
              /\ task[f].last_exc.status = h.status

\* C6: a stuck file's polling loop sends a GET and stays pending while the
\* elapsed time is within POLL_TIMEOUT_SECONDS, and raises TimeoutError
\* without a further GET once it is beyond, which ends the use of its
\* handle; a stuck file never leaves redact_conversation by returning; and
\* once the pool is running every pending file ends with an outcome.  So
\* every polling loop of a stuck file ends in the TimeoutError, the stuck
\* file ends as failed, and the other files are processed.
C6_PollTimeout ==
    /\ [][\A f \in stuck :
            /\ (task[f].pc = "poll" /\ task'[f] # task[f]) =>
                  IF task[f].elapsed > POLL_TIMEOUT_SECONDS
                  THEN /\ task'[f].last_exc = Exc("TimeoutError", 0)
                       /\ task'[f].http = task[f].http
                       /\ task'[f].job_endpoint # task[f].job_endpoint
                       /\ task[f].attempt = MAX_FILE_RETRIES => task'[f].pc = "raised"
                  ELSE /\ task'[f].http.method = "GET"
                       /\ task'[f].pc = "poll"
                       /\ task'[f].job_endpoint = task[f].job_endpoint
            /\ task[f].pc \in {"submit", "poll"} => task'[f].pc # "returned"]_vars
    /\ (main.pc = "pool") ~> (pending_files \subseteq Finished)

\* A stuck file has failed on a poll timeout and another file was processed.
C6_Witness ==
    \E f \in stuck, g \in pending_files \ stuck :
        /\ task[f].pc = "raised"
        /\ task[f].last_exc = Exc("TimeoutError", 0)
        /\ task[g].pc = "returned"
        /\ output[expected_out(g)].exists

\* C7: when every returned turn id is an id of the original conversation,
\* reconciliation returns one entry per returned turn, in the returned
\* order, with the original turn's participant, the redacted text and the
\* timestamp of the map (None when the map has no such key).
RcKnown ==
    \A k \in 1..Len(rc.analysed.conversationItems) :
        \E j \in 1..Len(rc.items) : rc.items[j].id = rc.analysed.conversationItems[k].id

C7_Reconciliation ==
    (rc.done /\ RcKnown) =>
        /\ ~rc.raised
        /\ rc.out.exists
        /\ Len(rc.out.conversation) = Len(rc.analysed.conversationItems)
        /\ \A k \in 1..Len(rc.analysed.conversationItems) :
              LET item == rc.analysed.conversationItems[k]
                  e == rc.out.conversation[k]
              IN  /\ e.text = item.redactedContent
                  /\ \E j \in 1..Len(rc.items) :
                        /\ rc.items[j].id = item.id
                        /\ rc.items[j].participantId = e.participant
                        /\ rc.items[j].text # e.text
                  /\ item.id \in DOMAIN rc.ts => e.timestamp = rc.ts[item.id]
                  /\ item.id \notin DOMAIN rc.ts => e.timestamp = None

\* Two turns of different participants returned in the reverse order, one
\* of them without a key in the timestamp map.
C7_Witness ==
    /\ rc.done /\ ~rc.raised
    /\ Len(rc.out.conversation) = 2
    /\ rc.analysed.conversationItems[1].id = 2
    /\ rc.analysed.conversationItems[2].id = 1
    /\ rc.out.conversation[1].participant # rc.out.conversation[2].participant
    /\ DOMAIN rc.ts = {1}
    /\ rc.out.conversation[1].timestamp = None
    /\ rc.out.conversation[2].timestamp = "10:00"

\* C8: a status check answered "succeeded" with a turn id that is no id of
\* the submitted conversation raises KeyError: the step writes no artifact
\* and process_file does not return from it.
HasUnknownId(items, result) ==
    \E k \in 1..Len(result.conversationItems) :
        \A j \in 1..Len(items) : items[j].id # result.conversationItems[k].id

C8_UnknownTurnId ==
    [][\A f \in Units :
        (/\ task[f].pc = "poll" /\ task[f].elapsed <= POLL_TIMEOUT_SECONDS
         /\ task'[f] # task[f]
         /\ task'[f].http.body = "succeeded"
         /\ HasUnknownId(CurItems(f, task[f]), task'[f].http.result)) =>
              /\ output' = output
              /\ task'[f].last_exc = Exc("KeyError", 0)
              /\ task'[f].pc # "returned"
              /\ task'[f].attempt # task[f].attempt]_vars

\* A result with an unknown turn id has been received and raised KeyError.
C8_Witness ==
    \E f \in Units :
        /\ task[f].http.body = "succeeded"
        /\ \E k \in 1..Len(task[f].http.result.conversationItems) :
              task[f].http.result.conversationItems[k].id = 99
        /\ task[f].last_exc = Exc("KeyError", 0)
        /\ ~output[DocId(splitext(f), 0)].exists

\* C9 (as claimed): a file that expands to several conversations is counted
\* as succeeded only when the artifact of every one of them was written.
C9_AllSubDocuments ==
    \A f \in Units :
        (task[f].pc = "returned" /\ Len(convos[f]) >= 2) =>
            \A k \in 1..Len(convos[f]) :
                output[DocId(splitext(f), convos[f][k])].exists

\* C10 (as claimed): no request is sent for a conversation without turns.
C10_EmptyNotSubmitted ==
    \A f \in Units :
        (/\ task[f].pc \in {"submit", "poll"}
         /\ CurItems(f, task[f]) = << >>) =>
              task[f].pc = "submit" /\ task[f].attempt_http = 0

\* The last status check of the file was answered "succeeded" with a result
\* whose reconciliation does not raise: the file's own job succeeded.
OwnSuccess(f) ==
    LET h == task[f].http IN
    /\ h.method = "GET" /\ h.status = 200 /\ h.body = "succeeded"
    /\ ~ReconcileRaises(conversationItems(f, h.result.id.n), h.result)

\* C11 (as claimed): every pending file ends with exactly one outcome, which
\* main() counts once; a file is counted as succeeded on the strength of its
\* own job, whatever happened to the other files; and a run over a directory
\* with input files ends by printing the summary counts, which add up to
\* the number of input files.
C11_IsolationAndSummary ==
    /\ main.pc \in {"pool", "exit"} =>
          main.successes + main.failures = Cardinality(pending_files \cap Finished)
    /\ \A f \in pending_files :
          (task[f].pc = "returned" /\ ~task[f].stale) => OwnSuccess(f)
    /\ (main.pc = "exit" /\ all_files # {}) =>
          /\ log[Len(log)].summary
          /\ log[Len(log)].succeeded + log[Len(log)].failed + log[Len(log)].skipped
                = Cardinality(all_files)

\* The step from t to t2 of a file's process_file ends an attempt in an
\* exception.
AttemptFails(t, t2) ==
    /\ t.pc \in {"submit", "poll"} /\ t2.pc # "returned"
    /\ t2.attempt # t.attempt \/ t2.last_exc # t.last_exc

\* The exception t2 remembers is the one the step from t raised.
IsErrorOfStep(t, t2) ==
    /\ t2.last_exc # NoExc
    /\ (t.pc = "poll" /\ t.elapsed > POLL_TIMEOUT_SECONDS) =>
          t2.last_exc = Exc("TimeoutError", 0)
    /\ (t.pc = "poll" /\ t.elapsed <= POLL_TIMEOUT_SECONDS /\ t2.http.body = "failed") =>
          t2.last_exc = Exc("RuntimeError: job failed", 0)
    /\ (t.elapsed <= POLL_TIMEOUT_SECONDS /\ t2.http.kind = "response"
        /\ t2.http.status >= 400 /\ t2.http.status \notin status_forcelist) =>
          t2.last_exc = Exc("HTTPError", t2.http.status)

\* C12: process_file makes attempts 1, 2, ... and never more than
\* MAX_FILE_RETRIES; an attempt that fails is followed by the next attempt,
\* which starts in the submit loop of the first conversation without any
\* job handle, or, when it was attempt MAX_FILE_RETRIES, by the failure of
\* the file, which main() counts and which carries the exception of that
\* last attempt; polling is entered only by a POST of the same attempt
\* answered 202, a GET is sent only while polling, and the handle polled is
\* always the one the current attempt obtained.
C12_DocumentRetry ==
    /\ [](\A f \in Units :
            /\ task[f].attempt <= MAX_FILE_RETRIES
            /\ task[f].pc = "submit" => task[f].job_endpoint = NoJob
            /\ task[f].pc = "poll" =>
                  task[f].job_endpoint = [attempt |-> task[f].attempt, sub |-> task[f].sub])
    /\ [][\A f \in Units :
            LET t == task[f]
                t2 == task'[f]
            IN  /\ (t.pc = "idle" /\ t2.pc \in {"submit", "poll"}) =>
                      t2.pc = "submit" /\ t2.attempt = 1 /\ t2.attempt_http = 0
                /\ AttemptFails(t, t2) =>
                      /\ IsErrorOfStep(t, t2)
                      /\ IF t.attempt < MAX_FILE_RETRIES
                         THEN /\ t2.pc = "submit" /\ t2.attempt = t.attempt + 1
                              /\ t2.sub = 1 /\ t2.attempt_http = 0
                              /\ t2.job_endpoint = NoJob
                              /\ main' = main
                         ELSE /\ t2.pc = "raised"
                              /\ main'.failures = main.failures + 1
                              /\ main'.successes = main.successes
                /\ (t2.pc = "raised" /\ t.pc # "raised") =>
                      t.attempt = MAX_FILE_RETRIES /\ AttemptFails(t, t2)
                /\ (t2.pc = "poll" /\ t.pc # "poll") =>
                      /\ t.pc = "submit" /\ t2.attempt = t.attempt /\ t2.sub = t.sub
                      /\ t2.http.method = "POST" /\ t2.http.status = 202
                /\ (t2.http.method = "GET" /\ t2.http # t.http) => t.pc = "poll"]_vars

\* A file has failed after MAX_FILE_RETRIES attempts, the last of which
\* ended with the job reported "failed".
C12_Witness ==
    \E f \in Units :
        /\ task[f].pc = "raised"
        /\ task[f].last_exc = Exc("RuntimeError: job failed", 0)
        /\ task[f].http.body = "failed"
        /\ main.failures >= 1

\* C13 (as claimed): a file that starts with one of its artifacts in the
\* output directory, which was not there at the scan, sends no request, and
\* no step of its process_file changes the output directory.
C13_StaleCheck ==
    /\ [](\A f \in Units : task[f].stale => task[f].http = NoHttp)
    /\ [][\A f \in Units :
            (task'[f].stale /\ task'[f] # task[f]) => output' = output]_vars

\* C14 (as claimed): a file whose attempt failed in reconciliation (the
\* KeyError of an unknown turn id) makes no further attempt: it is not in
\* redact_conversation again.
C14_ReconciliationNotRetried ==
    \A f \in Units :
        task[f].last_exc = Exc("KeyError", 0) => task[f].pc \notin {"submit", "poll"}

\* C15 (as claimed): after a status check answered with a status that is
\* neither 2xx nor in status_forcelist the polling loop has ended by raising
\* the error of that status.
C15_FatalPollStatus ==
    \A f \in Units :
        LET h == task[f].http IN
        (/\ h.method = "GET" /\ h.kind = "response"
         /\ ~(h.status >= 200 /\ h.status < 300)
         /\ h.status \notin status_forcelist) =>
              /\ task[f].pc # "poll"
              /\ task[f].last_exc = Exc("HTTPError", h.status)

\* The answer to a status check is one the poller waits on: a status of
\* status_forcelist, a network error, or 200 with a status that is neither
\* "succeeded" nor "failed".
Tolerated(h) ==
    /\ h.method = "GET"
    /\ \/ h.kind = "neterr"
       \/ h.kind = "response" /\ h.status \in status_forcelist
       \/ h.kind = "response" /\ h.status = 200 /\ h.body \notin {"succeeded", "failed"}

\* C16: a polling iteration whose status check gets such an answer leaves
\* the file polling the same handle in the same attempt, with nothing
\* raised, nothing counted and nothing written; and a polling loop whose
\* last answer was such an answer ends only by the TimeoutError, raised
\* when the elapsed time is beyond POLL_TIMEOUT_SECONDS.
C16_TransientTolerance ==
    [][\A f \in Units :
        LET t == task[f]
            t2 == task'[f]
        IN  (t.pc = "poll" /\ t2 # t) =>
              /\ (t.elapsed <= POLL_TIMEOUT_SECONDS /\ Tolerated(t2.http)) =>
                    /\ t2.pc = "poll"
                    /\ t2.job_endpoint = t.job_endpoint
                    /\ t2.attempt = t.attempt /\ t2.sub = t.sub
                    /\ t2.attempt_http = t.attempt_http
                    /\ t2.last_exc = t.last_exc
                    /\ main' = main /\ output' = output
              /\ (Tolerated(t2.http) /\ (t2.pc # "poll" \/ t2.job_endpoint # t.job_endpoint)) =>
                    /\ t.elapsed > POLL_TIMEOUT_SECONDS
                    /\ t2.http = t.http
                    /\ t2.last_exc = Exc("TimeoutError", 0)]_vars

\* The polling loop of a file's last attempt has ended in the TimeoutError
\* after a status check answered 503.
C16_Witness ==
    \E f \in Units :
        /\ task[f].pc = "raised"
        /\ task[f].last_exc = Exc("TimeoutError", 0)
        /\ task[f].http.method = "GET" /\ task[f].http.status = 503

\* C17 (as claimed): the POST that is the MAX_HTTP_RETRIES-th of a submit
\* loop and fails in the network like all the POSTs of the loop before it
\* ends the loop with an exception that names the last network exception.
C17_NetworkExhausted ==
    [][\A f \in Units :
        LET t == task[f]
            t2 == task'[f]
        IN  (/\ t.pc = "submit" /\ t2 # t
             /\ t.attempt_http = MAX_HTTP_RETRIES - 1 /\ t.response = 0
             /\ t2.http.kind = "neterr") =>
                  /\ t2.http.posts = MAX_HTTP_RETRIES
                  /\ AttemptFails(t, t2)
                  /\ t2.last_exc.names_last_exc]_vars

\* C18 (as claimed): a file that expands to several conversations is left
\* out of pending_files by the scan only when the artifact of every one of
\* its conversations was in the output directory at the scan.
C18_SkipExpanded ==
    \A f \in all_files :
        (/\ main.pc \in {"pool", "exit"}
         /\ f \notin pending_files
         /\ Len(convos[f]) >= 2) =>
              Artifacts(f) \subseteq main.scan_out

\* The artifact the file wrote last in this run, when its last status check
\* ended in a write.
LastWritten(f) == IF OwnSuccess(f) THEN { task[f].http.result.id } ELSE {}

\* C19 (as claimed): no two files of a run write the same artifact.
C19_NoCollision ==
    \A f, g \in pending_files :
        f # g => LastWritten(f) \cap LastWritten(g) = {}

\* C20: a file enters the polling loop only by a POST answered 202 with an
\* Operation-Location, whose handle it then holds; and every step of this
\* run that changes the output directory is a status check of a file that
\* is polling the handle of its current attempt within the timeout,
\* answered 200 "succeeded" with a result whose reconciliation does not
\* raise: the step writes that reconciliation under the id of the result,
\* raises nothing and changes no other file's state.
C20_ArtifactsFromSucceededJobs ==
    /\ [][\A f \in Units :
            (task'[f].pc = "poll" /\ task[f].pc # "poll") =>
                /\ task[f].pc = "submit"
                /\ task'[f].http.method = "POST" /\ task'[f].http.status = 202
                /\ task'[f].http.location
                /\ task'[f].job_endpoint =
                      [attempt |-> task[f].attempt, sub |-> task[f].sub]]_vars
    /\ [][(output' # output /\ task' # task) =>
            \E f \in Units :
                LET t == task[f]
                    t2 == task'[f]
                    h == task'[f].http
                IN  /\ t.pc = "poll" /\ t.elapsed <= POLL_TIMEOUT_SECONDS
                    /\ t.job_endpoint = [attempt |-> t.attempt, sub |-> t.sub]
                    /\ h.method = "GET" /\ h.status = 200 /\ h.body = "succeeded"
                    /\ ~HasUnknownId(CurItems(f, t), h.result)
                    /\ \A d \in DocIds : d # h.result.id => output'[d] = output[d]
                    /\ output'[h.result.id] =
                          Reconcile(CurItems(f, t), CurTimestamps(f, t), h.result)
                    /\ t2.last_exc \in {t.last_exc, NoExc}
                    /\ t2.pc = "returned" \/ (t2.pc = "submit" /\ t2.attempt = t.attempt)
                    /\ \A g \in Units \ {f} : task'[g] = task[g]]_vars

\* A file has returned after its job succeeded and its artifact, with the
\* redacted turns, is in the output directory.
C20_Witness ==
    \E f \in Units :
        /\ task[f].pc = "returned"
        /\ OwnSuccess(f)
        /\ output[task[f].http.result.id].exists
        /\ Len(output[task[f].http.result.id].conversation) = 2

\* C21: a file that yields a single conversation has sent at most
\* MAX_HTTP_RETRIES * MAX_FILE_RETRIES POSTs in the run, whatever the
\* answers were.
C21_BoundedSubmissions ==
    \A f \in Units :
        Len(convos[f]) = 1 =>
            task[f].http.run_posts <= MAX_HTTP_RETRIES * MAX_FILE_RETRIES

\* A file with a single conversation has failed after MAX_FILE_RETRIES
\* attempts of MAX_HTTP_RETRIES POSTs each.
C21_Witness ==
    \E f \in Units :
        /\ Len(convos[f]) = 1
        /\ task[f].pc = "raised"
        /\ task[f].http.method = "POST"
        /\ task[f].http.run_posts = MAX_HTTP_RETRIES * MAX_FILE_RETRIES

====
